---- MODULE Spec2Model ----
(***************************************************************************)
(* Thurstonian utility model of thurstonian_model.ipynb: the fitting cell  *)
(* (option extraction, the negative log-likelihood objective, the bounded  *)
(* L-BFGS-B call, the unpacking of the result) and the diagnostics cell    *)
(* (calculate_pairwise_prob, calculate_cross_entropy).                     *)
(*                                                                         *)
(* Numbers.  mu and the components of the parameter vector are integers    *)
(* (the iterates are taken on the integer points of the box).  sigma is in *)
(* millionths (sigma = 1.0 is Micro), probabilities are in millionths,     *)
(* z-scores in thousandths, logarithms in millionths.  A logarithm or a    *)
(* sum of logarithms is a float record: finite, +inf, -inf or nan, because *)
(* np.log(0) is -inf and 0 * -inf is nan in IEEE arithmetic.               *)
(***************************************************************************)
EXTENDS Integers, Sequences, FiniteSets, TLC

----------------------------------------------------------------------------
(* Bounds of the model *)

MaxRecords == 1
MaxFnRecords == 1

(* Constants of the program *)

MuLo == -10
MuHi == 10
LogSigmaLo == -10
LogSigmaHi == 2
InitMu == 0
InitLogSigma == 0
MinOptions == 2
PresentedLen == 2

Options == {"A", "B", "C"}

----------------------------------------------------------------------------
(* Arithmetic *)

Micro == 1000 * 1000

Abs(a) == IF a < 0 THEN -a ELSE a

Max(a, b) == IF a >= b THEN a ELSE b

Min(a, b) == IF a <= b THEN a ELSE b

Fin(v) == [kind |-> "fin", v |-> v]

PosInf == [kind |-> "inf", v |-> 1]

NegInf == [kind |-> "inf", v |-> -1]

NaN == [kind |-> "nan", v |-> 0]

IsFinite(f) == f.kind = "fin"

\* IEEE addition: nan is absorbing, inf + -inf is nan.
FAdd(a, b) ==
    IF a.kind = "nan" \/ b.kind = "nan" THEN NaN
    ELSE IF a.kind = "inf" /\ b.kind = "inf"
         THEN (IF a.v = b.v THEN a ELSE NaN)
    ELSE IF a.kind = "inf" THEN a
    ELSE IF b.kind = "inf" THEN b
    ELSE Fin(a.v + b.v)

FNeg(a) == IF a.kind = "nan" THEN NaN ELSE [kind |-> a.kind, v |-> -a.v]

\* y * a for y in {0, 1}: 0 * inf is nan.
FMulInt(y, a) ==
    IF a.kind = "nan" THEN NaN
    ELSE IF a.kind = "inf"
         THEN (IF y = 0 THEN NaN ELSE IF y > 0 THEN a ELSE FNeg(a))
    ELSE Fin(y * a.v)

\* a / n for an integer n > 0.
FDivInt(a, n) ==
    IF a.kind = "fin"
    THEN Fin(IF a.v >= 0 THEN a.v \div n ELSE -((-a.v) \div n))
    ELSE a

\* a < b on floats; every comparison with nan is false.
FLess(a, b) ==
    IF a.kind = "nan" \/ b.kind = "nan" THEN FALSE
    ELSE IF a.kind = "inf" THEN a.v < 0 /\ ~(b.kind = "inf" /\ b.v < 0)
    ELSE IF b.kind = "inf" THEN b.v > 0
    ELSE a.v < b.v

\* The integer square root of n, by Newton's iteration from x >= sqrt(n).
RECURSIVE Newton(_, _)
Newton(n, x) ==
    LET y == (x + n \div x) \div 2
    IN  IF y >= x THEN x ELSE Newton(n, y)

\* np.sqrt(a**2 + b**2) on millionths; the operands are scaled down before
\* squaring, as far as their magnitude requires.
np_sqrt_sumsq(a, b) ==
    LET m == Max(Abs(a), Abs(b))
        f == IF m < 30000 THEN 1 ELSE IF m < 960000 THEN 32 ELSE 1024
        x == Abs(a) \div f
        y == Abs(b) \div f
    IN  IF x + y = 0 THEN 0 ELSE f * Newton(x * x + y * y, x + y)

\* np.exp on the integers of [LogSigmaLo, LogSigmaHi], in millionths.
ExpTable ==
    << 45, 123, 335, 912, 2479, 6738, 18316, 49787, 135335, 367879,
       1000000, 2718282, 7389056 >>

np_exp(x) == ExpTable[x + 11]

\* The upper tail 0.5 * erfc(t / sqrt 2) of the standard normal, in
\* millionths, at t = 0, 0.125, 0.25, ..., 5.125.
TailTable ==
    << 500000, 450262, 401294, 353830, 308538, 265986, 226627, 190787,
       158655, 130295, 105650, 84566, 66807, 52081, 40059, 30396, 22750,
       16793, 12224, 8774, 6210, 4332, 2980, 2020, 1350, 889, 577, 369,
       233, 144, 88, 53, 32, 19, 11, 6, 3, 2, 1, 1, 0, 0 >>

\* The tail at t >= 0 thousandths.  It underflows to exactly 0 only beyond
\* t = 38.5; below that it is positive, and held at the smallest value
\* the resolution has.
UpperTail(t) ==
    IF t >= 38500 THEN 0
    ELSE IF t >= 5000 THEN 1
    ELSE LET i == t \div 125
             r == t % 125
             a == TailTable[i + 1]
             b == TailTable[i + 2]
         IN  Max(1, a - ((a - b) * r) \div 125)

\* scipy.stats.norm.cdf at z thousandths, in millionths: the tail for
\* z <= 0, and 1 - tail for z > 0, which is exactly 1.0 from z = 8.3 on.
norm_cdf(z) ==
    IF z <= 0 THEN UpperTail(-z)
    ELSE IF z >= 8300 THEN Micro
    ELSE Micro - UpperTail(z)

\* ln(1 + i/16) in millionths, i = 0..16.
LnTable ==
    << 0, 60625, 117783, 171850, 223144, 271934, 318454, 362905, 405465,
       446287, 485508, 523248, 559616, 594707, 628609, 661398, 693147 >>

RECURSIVE Normalise(_, _)
Normalise(p, k) == IF p >= 524288 THEN <<p, k>> ELSE Normalise(2 * p, k + 1)

\* ln(p / 10^6) in millionths for p in 1..10^6.
LnMicro(p) ==
    IF p >= Micro THEN 0 ELSE
    LET nk == Normalise(p, 0)
        m == nk[1] - 524288
        i == m \div 32768
        r == (m % 32768) \div 8
        a == LnTable[i + 1]
        b == LnTable[i + 2]
    IN  a + ((b - a) * r) \div 4096 + (19 - nk[2]) * 693147 - 13815511

\* np.log(p) for a probability p in millionths: -inf at 0.
np_log(p) == IF p <= 0 THEN NegInf ELSE Fin(LnMicro(p))

\* np.log(p + epsilon), epsilon = 1e-10: ln(1e-10) at p = 0; elsewhere
\* epsilon is below the resolution.
np_log_eps(p) == IF p <= 0 THEN Fin(-23025851) ELSE Fin(LnMicro(p))

NoValue == [kind |-> "none", v |-> 0]

Sign(d) == IF d > 0 THEN 1 ELSE IF d < 0 THEN -1 ELSE 0

Clamp(z) == Max(-40000, Min(40000, z))

\* mu_diff / (sigma_sum + epsilon) in thousandths, for an integer mu_diff
\* and sigma_sum in millionths.  epsilon = 1e-10 is below the resolution
\* of sigma_sum; it decides the quotient only at sigma_sum = 0.  A z-score
\* is kept within +-40, beyond which norm.cdf is exactly 0 or 1.
ZScoreEps(mu_diff, sigma_sum) ==
    IF sigma_sum = 0 THEN 40000 * Sign(mu_diff)
    ELSE Clamp(mu_diff * (1000000000 \div sigma_sum))

\* (mu_X - mu_Y) / sigma_sum in thousandths, for sigma_sum > 0.
ZScore(mu_diff, sigma_sum) == Clamp(mu_diff * (1000000000 \div sigma_sum))

----------------------------------------------------------------------------
(* The fitting cell *)

VARIABLES
    data,             \* the comparison records (A, B, chosen)
    grid,             \* the values the optimizer's trial points are taken from
    pc,               \* where the run is
    options,          \* list(set(...)): the options, in list order
    mu, sigma,        \* the module-level dicts
    init_params,
    bounds,
    params,           \* the argument of the latest objective call
    fval,             \* the value the latest objective call returned
    fmin,             \* the least value of the objective on the trial points
    result,           \* what minimize returned
    mu_estimates,
    sigma_estimates,
    prevOptions,      \* the list order of the previous run on the same data
    probs,            \* calculate_pairwise_prob on every pair of options
    cross_entropy     \* what calculate_cross_entropy returned

vars ==
    << data, grid, pc, options, mu, sigma, init_params, bounds, params, fval,
       fmin, result, mu_estimates, sigma_estimates, prevOptions, probs,
       cross_entropy >>

Records == Options \X Options \X Options

DataSets(maxLen) == UNION {[1..k -> Records] : k \in 0..maxLen}

\* Mutant: the slice [:2] left out, so that chosen is collected too.
FlattenWithChosen(d) == [k \in 1..(3 * Len(d)) |-> d[((k - 1) \div 3) + 1][((k - 1) % 3) + 1]]

\* [item for sublist in data for item in sublist[:2]]
Flatten(d) ==
    [k \in 1..(PresentedLen * Len(d)) |->
        d[((k - 1) \div PresentedLen) + 1][((k - 1) % PresentedLen) + 1]]

\* set(items)
SetOf(items) == {items[k] : k \in DOMAIN items}

\* list(S): the iteration order of a set of strings is decided by the
\* interpreter's per-process string hashing; any order can come out.
ListsOf(S) ==
    {s \in [1..Cardinality(S) -> S] : \A i, j \in DOMAIN s : i # j => s[i] # s[j]}

\* Mutant: the check off by one, len(options) < 1.
InsufficientOffByOne(opts) == Len(opts) < MinOptions - 1

\* len(options) < 2
Insufficient(opts) == Len(opts) < MinOptions

IndexOf(opts, o) == CHOOSE i \in DOMAIN opts : opts[i] = o

\* mu[opt] = params[i]
MuParam(x, n, i) == x[i]

\* Mutant: the exponential left out, sigma[opt] = params[i + len(options)].
SigmaParamRaw(x, n, i) == x[i + n] * Micro

\* sigma[opt] = np.exp(params[i + len(options)])
SigmaParam(x, n, i) == np_exp(x[i + n])

\* The dict mu after "for i, opt in enumerate(options): mu[opt] = ...".
AssignedMu(d, opts, x) ==
    [o \in DOMAIN d \cup SetOf(opts) |->
        IF o \in SetOf(opts) THEN MuParam(x, Len(opts), IndexOf(opts, o)) ELSE d[o]]

\* The dict sigma after the same loop.
AssignedSigma(d, opts, x) ==
    [o \in DOMAIN d \cup SetOf(opts) |->
        IF o \in SetOf(opts) THEN SigmaParam(x, Len(opts), IndexOf(opts, o)) ELSE d[o]]

\* Mutant: the two branches of the log-likelihood exchanged.
RecordLogLikFlipped(rec, m, s) ==
    LET A == rec[1]
        B == rec[2]
        chosen == rec[3]
        mu_diff == m[A] - m[B]
        sigma_sum == np_sqrt_sumsq(s[A], s[B])
        prob_A == norm_cdf(ZScoreEps(mu_diff, sigma_sum))
    IN  IF chosen = A THEN np_log_eps(Micro - prob_A) ELSE np_log(prob_A)

\* One term of the log-likelihood.
RecordLogLik(rec, m, s) ==
    LET A == rec[1]
        B == rec[2]
        chosen == rec[3]
        mu_diff == m[A] - m[B]
        sigma_sum == np_sqrt_sumsq(s[A], s[B])
        prob_A == norm_cdf(ZScoreEps(mu_diff, sigma_sum))
    IN  IF chosen = A THEN np_log(prob_A) ELSE np_log_eps(Micro - prob_A)

RECURSIVE LogLik(_, _, _, _)
LogLik(d, m, s, k) ==
    IF k = 0 THEN Fin(0)
    ELSE FAdd(LogLik(d, m, s, k - 1), RecordLogLik(d[k], m, s))

\* neg_log_likelihood(params): the dicts it leaves and the value it returns.
neg_log_likelihood(x, opts, d, m, s) ==
    LET m1 == AssignedMu(m, opts, x)
        s1 == AssignedSigma(s, opts, x)
    IN  [mu |-> m1, sigma |-> s1, value |-> FNeg(LogLik(d, m1, s1, Len(d)))]

\* [0] * len(options) + [0] * len(options)
InitParams(n) == [i \in 1..n |-> InitMu] \o [i \in 1..n |-> InitLogSigma]

\* [(-10, 10)] * len(options) + [(-10, 2)] * len(options)
Bounds(n) ==
    [i \in 1..n |-> <<MuLo, MuHi>>] \o [i \in 1..n |-> <<LogSigmaLo, LogSigmaHi>>]

\* L-BFGS-B keeps every point it evaluates inside the box.
Clip(x, b) == [i \in DOMAIN x |-> Max(b[i][1], Min(b[i][2], x[i]))]

\* The points the optimizer can reach: each coordinate at a starting value
\* or at a trial value, clipped to its bounds.
TrialPoints(g, b, x0) ==
    {Clip(y, b) : y \in [DOMAIN b -> g \cup SetOf(x0)]}

\* The points one call away from x: one coordinate moved, as a
\* finite-difference probe or a step along one axis does.
Probes(g, b, x0, x) ==
    {Clip([x EXCEPT ![i] = v], b) : i \in DOMAIN x, v \in g \cup SetOf(x0)} \ {x}

\* The least of a non-empty set of objective values.
Least(S) == CHOOSE v \in S : \A w \in S : ~FLess(w, v)

\* The dicts named by options, every value set to c.
DictOf(opts, c) == [o \in SetOf(opts) |-> c]

\* result.x[:len(options)]
MuEstimates(x, n) == SubSeq(x, 1, n)

\* Mutant: the wrong half of the vector, np.exp(result.x[:len(options)]).
SigmaEstimatesFirstHalf(x, n) == [i \in 1..n |-> np_exp(SubSeq(x, 1, n)[i])]

\* np.exp(result.x[len(options):])
SigmaEstimates(x, n) == [i \in 1..n |-> np_exp(SubSeq(x, n + 1, Len(x))[i])]

NoResult == [x |-> <<>>, fun |-> NoValue, success |-> FALSE]

NoPrev == [seen |-> FALSE, order |-> <<>>]

\* The state of a fresh interpreter about to run the cell on d.
Fresh(d, g, prev) ==
    /\ data = d
    /\ grid = g
    /\ pc = "start"
    /\ options = <<>>
    /\ mu = <<>>
    /\ sigma = <<>>
    /\ init_params = <<>>
    /\ bounds = <<>>
    /\ params = <<>>
    /\ fval = NoValue
    /\ fmin = NoValue
    /\ result = NoResult
    /\ mu_estimates = <<>>
    /\ sigma_estimates = <<>>
    /\ prevOptions = prev
    /\ probs = <<>>
    /\ cross_entropy = NoValue

\* Trial values: a step that overshoots every lower bound (coarse), or one
\* unit either way (fine).
CoarseGrid == {2 * MuLo}

FineGrid == {-1, 1}

\* [item for sublist in d for item in sublist]: every identifier of d, in
\* order of appearance.
Identifiers(d) == [k \in 1..(3 * Len(d)) |-> d[((k - 1) \div 3) + 1][((k - 1) % 3) + 1]]

Rank == [o \in Options |-> IF o = "A" THEN 1 ELSE IF o = "B" THEN 2 ELSE 3]

\* The data sets whose identifiers first appear in the order A, B, C: every
\* data set is one of these with its identifiers renamed.
Named(d) ==
    LET w == Identifiers(d)
    IN  \A k \in DOMAIN w :
            Rank[w[k]] = 1 \/ \E j \in 1..(k - 1) : Rank[w[j]] = Rank[w[k]] - 1

Inputs(maxLen) == {d \in DataSets(maxLen) : Named(d)}

Init == \E d \in Inputs(MaxRecords) : Fresh(d, CoarseGrid, NoPrev)

InitRuns == \E d \in DataSets(MaxRecords) : Fresh(d, CoarseGrid, NoPrev)

\* Step 1: the options, the check on their number, the two dicts.
Setup ==
    /\ pc = "start"
    /\ \E l \in ListsOf(SetOf(Flatten(data))) :
        /\ options' = l
        /\ IF Insufficient(l)
           THEN /\ pc' = "error"           \* raise ValueError
                /\ UNCHANGED <<mu, sigma>>
           ELSE /\ pc' = "ready"
                /\ mu' = DictOf(l, 0)
                /\ sigma' = DictOf(l, Micro)
    /\ UNCHANGED << data, grid, init_params, bounds, params, fval, fmin, result,
                    mu_estimates, sigma_estimates, prevOptions, probs,
                    cross_entropy >>

\* One call of the objective by the optimizer, at x.
Call(x) ==
    LET r == neg_log_likelihood(x, options, data, mu, sigma)
    IN  /\ mu' = r.mu
        /\ sigma' = r.sigma
        /\ params' = x
        /\ fval' = r.value

\* Step 3: init_params, bounds, and minimize's first call of the objective,
\* at the starting point.
StartMinimize ==
    /\ pc = "ready"
    /\ LET n == Len(options)
           b == Bounds(n)
           x0 == Clip(InitParams(n), b)
       IN  /\ init_params' = InitParams(n)
           /\ bounds' = b
           /\ Call(x0)
           /\ fmin' = Least({neg_log_likelihood(x, options, data, mu, sigma).value :
                               x \in TrialPoints(grid, b, x0)})
    /\ pc' = "optimizing"
    /\ UNCHANGED << data, grid, options, result, mu_estimates, sigma_estimates,
                    prevOptions, probs, cross_entropy >>

\* A later call of the objective, at a point inside the box one coordinate
\* away from the latest.
Evaluate ==
    /\ pc = "optimizing"
    /\ \E x \in Probes(grid, bounds, Clip(init_params, bounds), params) : Call(x)
    /\ UNCHANGED << data, grid, pc, options, init_params, bounds, fmin, result,
                    mu_estimates, sigma_estimates, prevOptions, probs,
                    cross_entropy >>

\* minimize returns the point of its latest call (the finite-difference
\* step between the two is below the resolution); it reports success only
\* at a minimizer.  Then the estimates are unpacked.
Finish(success) ==
    /\ pc = "optimizing"
    /\ success => ~FLess(fmin, fval)
    /\ result' = [x |-> params, fun |-> fval, success |-> success]
    /\ mu_estimates' = MuEstimates(params, Len(options))
    /\ sigma_estimates' = SigmaEstimates(params, Len(options))
    /\ pc' = "done"
    /\ UNCHANGED << data, grid, options, mu, sigma, init_params, bounds, params,
                    fval, fmin, prevOptions, probs, cross_entropy >>

\* The cell is run again on the same data in a new interpreter.
Rerun ==
    /\ pc # "start"
    /\ pc' = "start"
    /\ options' = <<>>
    /\ mu' = <<>>
    /\ sigma' = <<>>
    /\ init_params' = <<>>
    /\ bounds' = <<>>
    /\ params' = <<>>
    /\ fval' = NoValue
    /\ fmin' = NoValue
    /\ result' = NoResult
    /\ mu_estimates' = <<>>
    /\ sigma_estimates' = <<>>
    /\ prevOptions' = [seen |-> TRUE, order |-> options]
    /\ UNCHANGED << data, grid, probs, cross_entropy >>

Next ==
    \/ Setup
    \/ StartMinimize
    \/ Evaluate
    \/ Finish(TRUE)
    \/ Finish(FALSE)

Spec == Init /\ [][Next]_vars

\* Two runs of the cell on the same data, as far as the option list.
NextRuns ==
    \/ Setup
    \/ Rerun

SpecRuns == InitRuns /\ [][NextRuns]_vars

\* The worked example.
ExampleData ==
    << <<"B", "A", "B">>, <<"A", "C", "C">>, <<"B", "C", "B">>,
       <<"A", "B", "A">>, <<"C", "A", "C">>, <<"C", "B", "B">>,
       <<"B", "A", "B">>, <<"A", "C", "A">>, <<"C", "B", "C">>,
       <<"A", "B", "B">> >>

InitExample == Fresh(ExampleData, FineGrid, NoPrev)

\* The run of the worked example, which the notebook records as converged.
NextExample ==
    \/ Setup
    \/ StartMinimize
    \/ Evaluate
    \/ Finish(TRUE)

SpecExample == InitExample /\ [][NextExample]_vars

----------------------------------------------------------------------------
(* The diagnostics cell *)

\* Mutant: sigma_Y left out of the denominator.
calculate_pairwise_prob_sigma_X(mu_X, mu_Y, sigma_X, sigma_Y) ==
    norm_cdf(ZScore(mu_X - mu_Y, np_sqrt_sumsq(sigma_X, 0)))

calculate_pairwise_prob(mu_X, mu_Y, sigma_X, sigma_Y) ==
    norm_cdf(ZScore(mu_X - mu_Y, np_sqrt_sumsq(sigma_X, sigma_Y)))

\* y * np.log(p) + (1 - y) * np.log(1 - p)
CrossEntropyTerm(rec, m, s) ==
    LET X == rec[1]
        Y == rec[2]
        chosen == rec[3]
        p_X_over_Y == calculate_pairwise_prob(m[X], m[Y], s[X], s[Y])
        y == IF chosen = X THEN 1 ELSE 0
    IN  FAdd(FMulInt(y, np_log(p_X_over_Y)),
             FMulInt(1 - y, np_log(Micro - p_X_over_Y)))

RECURSIVE CrossEntropySum(_, _, _, _)
CrossEntropySum(d, m, s, k) ==
    IF k = 0 THEN Fin(0)
    ELSE FAdd(CrossEntropySum(d, m, s, k - 1), FNeg(CrossEntropyTerm(d[k], m, s)))

calculate_cross_entropy(d, m, s) == FDivInt(CrossEntropySum(d, m, s, Len(d)), Len(d))

\* The parameter sets the two functions are applied to.
FnMus == {-1, 1}

FnSigmas == {np_exp(LogSigmaLo), Micro, np_exp(LogSigmaHi)}

InitFn ==
    \E d \in Inputs(MaxFnRecords) \ {<<>>}, m \in [Options -> FnMus],
       s \in [Options -> FnSigmas] :
        /\ data = d
        /\ grid = {}
        /\ pc = "fn"
        /\ options = <<>>
        /\ mu = m
        /\ sigma = s
        /\ init_params = <<>>
        /\ bounds = <<>>
        /\ params = <<>>
        /\ fval = NoValue
        /\ fmin = NoValue
        /\ result = NoResult
        /\ mu_estimates = <<>>
        /\ sigma_estimates = <<>>
        /\ prevOptions = NoPrev
        /\ probs = <<>>
        /\ cross_entropy = NoValue

\* calculate_pairwise_prob applied to every ordered pair of options.
ApplyPairwiseProb ==
    /\ pc = "fn"
    /\ probs = <<>>
    /\ probs' = [pr \in Options \X Options |->
                    calculate_pairwise_prob(mu[pr[1]], mu[pr[2]],
                                            sigma[pr[1]], sigma[pr[2]])]
    /\ UNCHANGED << data, grid, pc, options, mu, sigma, init_params, bounds,
                    params, fval, fmin, result, mu_estimates, sigma_estimates,
                    prevOptions, cross_entropy >>

\* cross_entropy = calculate_cross_entropy(data, mu, sigma)
ApplyCrossEntropy ==
    /\ pc = "fn"
    /\ cross_entropy = NoValue
    /\ cross_entropy' = calculate_cross_entropy(data, mu, sigma)
    /\ UNCHANGED << data, grid, pc, options, mu, sigma, init_params, bounds,
                    params, fval, fmin, result, mu_estimates, sigma_estimates,
                    prevOptions, probs >>

NextFn ==
    \/ ApplyPairwiseProb
    \/ ApplyCrossEntropy

SpecFn == InitFn /\ [][NextFn]_vars

----------------------------------------------------------------------------
(* Properties *)

\* The options of a data set as the specification defines them: the
\* identifiers in the first two positions of its records.
Presented(d) == UNION {{d[k][1], d[k][2]} : k \in DOMAIN d}

Malformed(rec) == rec[3] # rec[1] /\ rec[3] # rec[2]

Started == pc \in {"ready", "optimizing", "done"}

\* C1: when the first two positions of the data hold fewer than 2 distinct
\* identifiers, the run ends in the ValueError: the objective has never been
\* called and no parameters, result or estimates exist.
C1_InsufficientOptionsRejected ==
    (pc # "start" /\ Cardinality(Presented(data)) < 2) =>
        /\ pc = "error"
        /\ params = <<>>
        /\ fval = NoValue
        /\ result = NoResult
        /\ mu = <<>>
        /\ sigma = <<>>
        /\ mu_estimates = <<>>
        /\ sigma_estimates = <<>>

\* C1 witness: the run on [("A", "A", "A")] has ended in the error.
C1_Witness == pc = "error" /\ data = << <<"A", "A", "A">> >>

\* C2: a data set with a record whose chosen is neither its A nor its B is
\* rejected: the run ends in an error and never goes on to fit.
C2_MalformedRejected ==
    (pc # "start" /\ \E k \in DOMAIN data : Malformed(data[k])) => pc = "error"

\* C3: a call of the objective during the optimization leaves the dicts mu
\* and sigma as they were.
C3_ObjectivePure ==
    [][(pc = "optimizing" /\ pc' = "optimizing") => (mu' = mu /\ sigma' = sigma)]_vars

\* C4: a run on the same data as the run before it gives every option the
\* index it had before.
C4_SameIndexEveryRun ==
    (prevOptions.seen /\ pc # "start") => options = prevOptions.order

\* C5: every sigma in the dict the objective uses and every sigma estimate is
\* strictly positive, and every log-sigma component of a point the objective
\* is called at lies in [LogSigmaLo, LogSigmaHi].
C5_SigmaPositive ==
    /\ \A o \in DOMAIN sigma : sigma[o] > 0
    /\ \A i \in DOMAIN sigma_estimates : sigma_estimates[i] > 0
    /\ \A i \in DOMAIN params :
        i > Len(options) => (LogSigmaLo <= params[i] /\ params[i] <= LogSigmaHi)

\* C5 witness: a finished fit whose result has a log-sigma at its lower bound.
C5_Witness ==
    /\ pc = "done"
    /\ \E i \in DOMAIN sigma_estimates :
        result.x[i + Len(options)] = LogSigmaLo /\ sigma_estimates[i] > 0

\* C6: calculate_cross_entropy returns a finite value >= 0.
C6_CrossEntropyFiniteNonNeg ==
    cross_entropy # NoValue => (IsFinite(cross_entropy) /\ cross_entropy.v >= 0)

C8_Symmetry ==
    probs # <<>> =>
        \A X, Y \in Options : Abs(probs[<<X, Y>>] + probs[<<Y, X>>] - Micro) <= 1

\* C8 witness: the function applied to two options of different mu and
\* different sigma, with a probability away from 0, 1/2 and 1.
C8_Witness ==
    /\ probs # <<>>
    /\ \E X, Y \in Options :
        /\ mu[X] # mu[Y]
        /\ sigma[X] # sigma[Y]
        /\ probs[<<X, Y>>] > 1000
        /\ probs[<<X, Y>>] < Micro - 1000

\* C9: on the worked example the estimated means are ordered B > C > A.
C9_ExampleOrdering ==
    (pc = "done" /\ data = ExampleData) =>
        /\ mu_estimates[IndexOf(options, "B")] > mu_estimates[IndexOf(options, "C")]
        /\ mu_estimates[IndexOf(options, "C")] > mu_estimates[IndexOf(options, "A")]

\* C9 witness: the fit of the worked example has finished.
C9_Witness == pc = "done" /\ data = ExampleData /\ Len(mu_estimates) = 3

\* C10: the starting point, the bounds and every point of the fit have length
\* 2n; the option the objective read at index i is the option the estimates
\* report at index i, with mu = x[i] and sigma = exp(x[i + n]); the mu bounds
\* are on the first n components and the log-sigma bounds on the last n.
C10_PackUnpackAgree ==
    LET n == Len(options)
    IN  /\ pc \in {"optimizing", "done"} =>
            /\ Len(init_params) = 2 * n
            /\ Len(bounds) = 2 * n
            /\ Len(params) = 2 * n
            /\ \A i \in 1..n :
                /\ bounds[i] = <<MuLo, MuHi>>
                /\ bounds[i + n] = <<LogSigmaLo, LogSigmaHi>>
                /\ mu[options[i]] = params[i]
                /\ sigma[options[i]] = np_exp(params[i + n])
        /\ pc = "done" =>
            /\ Len(result.x) = 2 * n
            /\ Len(mu_estimates) = n
            /\ Len(sigma_estimates) = n
            /\ \A i \in 1..n :
                /\ mu[options[i]] = result.x[i]
                /\ mu_estimates[i] = result.x[i]
                /\ sigma[options[i]] = np_exp(result.x[i + n])
                /\ sigma_estimates[i] = np_exp(result.x[i + n])

\* C10 witness: a finished fit of two options whose result differs between
\* the two options in mu and in log-sigma, and between its halves.
C10_Witness ==
    /\ pc = "done"
    /\ Len(options) = 2
    /\ result.x[1] # result.x[2]
    /\ result.x[3] # result.x[4]
    /\ result.x[1] # result.x[3]

====
